---- MODULE Spec2Model ----
(***************************************************************************)
(* ssh-mcp: the SSHConnectionManager session state machine, its su         *)
(* elevation engine and the command execution engine.                      *)
(*                                                                         *)
(* Two builds of index.ts are modelled, selected by the variable `build`:  *)
(*   "v130"  src/src/index.ts        (server version 1.3.0)                *)
(*   "v140"  src/unnamed/part_000    (server version 1.4.0)                *)
(* The ssh2 Client is the environment: it delivers ready / error / end /   *)
(* close notifications, and the 30 s connection timer may expire.  null is *)
(* modelled as 0; transports, promises and channels are numbered from 1.   *)
(***************************************************************************)
EXTENDS Integers, Sequences, FiniteSets, TLC

MaxTransports == 2
MaxCalls == 3
MaxElev == 2
MaxBuf == 2
MaxPwWrites == 2
ElevCalls == 2
SuConnects == 1
MaxSecrets == 2
MaxExec == 2
MaxOut == 2
MaxHandlers == 2
MaxCmd == 3
MaxCharsLimit == 1

Transports == 1..MaxTransports
Elevs == 1..MaxElev
Execs == 1..MaxExec
Handlers == 1..MaxHandlers

\* Data chunks of an exec channel (stdout or stderr).
Chunks == {"a", "b"}
\* Data chunks of the elevated shell while a command runs in it:
\*   "line"      one line of text ending in a newline, without '#'
\*   "hashline"  one line of text ending in a newline, with a '#' in it
\*   "prompt"    the root prompt "# " (no newline after it)
ShellTokens == {"line", "hashline", "prompt"}

\* What one data chunk of the interactive shell can contain, as far as the
\* regular expressions of ensureElevated() can tell:
\*   "prompt"  ends in "Password: "        /password[: ]*$/i, /password[: ]/i
\*   "hash"    ends in "\n# "              /\n[^\n]*# $/, /#/
\*   "rootat"  contains "root@host"        /root[@:]/i
\*   "fail"    "su: Authentication failure"
\*   "text"    anything else (the echoed command, a banner)
Tokens == {"prompt", "hash", "rootat", "fail", "text"}

VARIABLES
    build,              \* which index.ts is running
    testMode,           \* process.env.SSH_MCP_TEST is set (read by v140)
    suPassword,         \* sshConfig.suPassword is a non-empty string
    suSecret,           \* which string sshConfig.suPassword holds (0: none)
    conn,               \* this.conn (0 = null, else the Client it points to)
    isConnecting,       \* this.isConnecting
    connectionPromise,  \* this.connectionPromise (0 = null, else the attempt)
    suShell,            \* this.suShell (0 = null, else the elevation channel)
    suPromise,          \* this.suPromise (0 = null, else the elevation attempt)
    isElevated,         \* this.isElevated
    client,             \* the ssh2 Clients created by connect(), by number
    elev,               \* the elevation attempts (promise + shell channel)
    calls,              \* the connect()/ensureConnected() calls made so far
    execs,              \* the execSshCommandWithConnection() calls
    lastGet,            \* what the latest getConnection() call did
    connectionManager,  \* the module variable connectionManager (0 = null)
    tool,               \* the exec / sudo-exec tool calls, by number
    keyAuth,            \* no --password and a --key file: the key is read
    MAX_CHARS,          \* the command length limit (Infinity: none)
    exited,             \* process.exit() was called
    orphans,            \* transports of managers that are referenced no more
    legacy              \* the execSshCommand() call and the Client it made

mgr == <<conn, isConnecting, connectionPromise, suShell, suPromise, isElevated>>
\* The server process around the session.
proc == <<connectionManager, tool, keyAuth, MAX_CHARS, exited, orphans>>
\* What no method or listener of the session changes.
cfg == <<build, testMode, suPassword, suSecret, proc, legacy>>
vars == <<build, testMode, suPassword, suSecret, conn, isConnecting, connectionPromise,
          suShell, suPromise, isElevated, client, elev, calls, execs,
          lastGet, connectionManager, tool, keyAuth, MAX_CHARS, exited,
          orphans, legacy>>

\* A Client that `new Client()` has not produced yet.
\* phase: "none" (not created), "connecting", "ready", "down" (an error or
\* end notification was delivered; close is still to come), "closed".
NoClient ==
    [phase |-> "none", sock |-> "none", ended |-> FALSE, endedEarly |-> FALSE,
     timer |-> FALSE, prom |-> "none", await |-> 0]

\* The Client right after connect()'s promise executor ran: the timer is
\* armed, the promise is pending, and Client.connect(config) has created the
\* socket (ssh2 assigns _sock inside connect(), before any notification).
NewClient ==
    [NoClient EXCEPT !.phase = "connecting", !.sock = "open", !.timer = TRUE,
                     !.prom = "pending"]

\* An elevation attempt that ensureElevated() has not started yet.
NoElev ==
    [prom |-> "none", phase |-> "unused", tr |-> 0, listening |-> FALSE,
     chanClosed |-> FALSE, chanEnded |-> FALSE, buf |-> << >>,
     pwSent |-> FALSE, pwWrites |-> 0, timer |-> FALSE]

nTransports == Cardinality({t \in Transports : client[t].phase # "none"})
\* A call of execSshCommandWithConnection that has not been made yet.
\*   cb: the exec callback ("none": not called yet, "stream", "err")
\*   abort: the pkill exec of the timeout callback ("none", "issued", "threw")
\*   via: the elevated shell the command was written into (0: own channel)
\*   settles: how often a callback of the call has called resolve()/reject()
\*   outcome: how the returned promise settled (the first settlement wins)
NoExec ==
    [st |-> "unused", tr |-> 0, via |-> 0, stdin |-> FALSE, pty |-> FALSE,
     isResolved |-> FALSE, timer |-> FALSE, settles |-> 0, outcome |-> "none",
     cb |-> "none", listening |-> FALSE, closed |-> FALSE,
     out |-> << >>, err |-> << >>, text |-> << >>, code |-> 0,
     writes |-> 0, abort |-> "none"]

\* Number.POSITIVE_INFINITY as the value of MAX_CHARS; --maxChars=0 and
\* negative values are read as Infinity, so 0 is never a finite limit.
Infinity == 0

\* A tool call that has not arrived yet.
\*   pc: "idle", "reading" (awaiting the key file), "connecting" (awaiting
\*       ensureConnected()), "running" (awaiting the command), "done",
\*       "failed"
\*   made: the SSHConnectionManager this call created (0: none)
\*   used: the manager the command was handed to
\*   await: the connection promise the call awaits (0: none)
NoTool ==
    [pc |-> "idle", cmd |-> << >>, code |-> "none",
     msg |-> "none", limit |-> 0, made |-> 0, used |-> 0, await |-> 0,
     exec |-> 0]

\* An execSshCommand(sshConfig, command) call that has not been made.
\*   phase, sock: its own Client, as in NoClient
\*   ended: conn.end() was called
\*   timer: the command timer; abortTimer: the 5 s timer of the abort
\*   abort: the pkill exec of the timer callback ("none", "issued", "threw")
\*   cb, abortCb: the exec callbacks ("none", "pending", "stream", "err");
\*   closed, abortClosed: the channels emitted 'close'
NoLegacy ==
    [phase |-> "none", sock |-> "none", ended |-> FALSE,
     isResolved |-> FALSE, timer |-> FALSE, abortTimer |-> FALSE,
     abort |-> "none", cb |-> "none", abortCb |-> "none",
     closed |-> FALSE, abortClosed |-> FALSE,
     out |-> << >>, err |-> << >>, settles |-> 0, outcome |-> "none",
     text |-> << >>, code |-> 0]

\* The class used on its own, as the tests use it: no tool call, no manager
\* in the module variable, the default limit of 1000 characters.
Standalone ==
    /\ connectionManager = 0
    /\ tool = [h \in Handlers |-> NoTool]
    /\ keyAuth = FALSE
    /\ MAX_CHARS = 1000
    /\ exited = FALSE
    /\ orphans = {}
    /\ legacy = NoLegacy

nExecs == Cardinality({k \in Execs : execs[k].st # "unused"})
nElevs == Cardinality({e \in Elevs : elev[e].phase # "unused"})

\* new SSHConnectionManager(config)
Constructed ==
    /\ build \in {"v130", "v140"}
    /\ conn = 0
    /\ isConnecting = FALSE
    /\ connectionPromise = 0
    /\ suShell = 0
    /\ suPromise = 0
    /\ isElevated = FALSE
    /\ client = [t \in Transports |-> NoClient]
    /\ elev = [e \in Elevs |-> NoElev]
    /\ calls = << >>
    /\ execs = [k \in Execs |-> NoExec]
    /\ lastGet = "none"

\* No --suPassword: the session never elevates.
Init ==
    /\ Constructed
    /\ Standalone
    /\ suPassword = FALSE
    /\ suSecret = 0
    /\ testMode = FALSE

\* --suPassword given; v140 also reads SSH_MCP_TEST.
InitElev ==
    /\ Constructed
    /\ Standalone
    /\ suPassword = TRUE
    /\ suSecret = 1
    /\ testMode \in BOOLEAN
    /\ (build = "v130" => testMode = FALSE)

\* Faulty variant: an isConnected() that looks at the handle only
isConnectedHandleOnly == conn # 0

\* isConnected(): conn !== null && conn._sock && !conn._sock.destroyed
isConnected == conn # 0 /\ client[conn].sock = "open"

\* resolve()/reject() of a promise that is already settled change nothing.
Settle(p, outcome) == IF p = "pending" THEN outcome ELSE p

----------------------------------------------------------------------------
(* ensureElevated(), up to the point where it returns its promise.         *)

\* Client.shell() throws 'Not connected' when the socket is not writable.
ShellThrows(c) == client[c].sock # "open" \/ client[c].ended

\* ensureElevated() returns without a new attempt: already elevated, no
\* secret configured, or an attempt is recorded in suPromise.
ElevNoop == (isElevated /\ suShell # 0) \/ ~suPassword \/ suPromise # 0

\* The promise ensureElevated() returns (0: the async function returns void).
ElevReturn ==
    IF (isElevated /\ suShell # 0) \/ ~suPassword THEN 0
    ELSE IF suPromise # 0 THEN suPromise
    ELSE nElevs + 1

\* The attempt the promise executor builds: getConnection() or shell() may
\* throw, which rejects the new promise; otherwise the shell request is sent
\* (and v140 arms its 10 s safety timer before it).
StartedElev ==
    IF conn = 0 THEN [NoElev EXCEPT !.prom = "rejected", !.phase = "nostream"]
    ELSE IF ShellThrows(conn)
    THEN [NoElev EXCEPT !.prom = "rejected", !.phase = "nostream", !.tr = conn,
                         !.timer = (build = "v140")]
    ELSE [NoElev EXCEPT !.prom = "pending", !.phase = "opening", !.tr = conn,
                         !.timer = (build = "v140")]

\* The effect of one ensureElevated() call on suPromise and the attempts.
EnsureElevated ==
    IF ElevNoop THEN UNCHANGED <<suPromise, elev>>
    ELSE /\ nElevs < MaxElev
         /\ suPromise' = nElevs + 1
         /\ elev' = [elev EXCEPT ![nElevs + 1] = StartedElev]

\* Whether an awaited ensureElevated() has settled once the call returned.
ElevSettledAfterCall ==
    \/ ElevReturn = 0
    \/ /\ ElevNoop
       /\ elev[ElevReturn].prom # "pending"
    \/ /\ ~ElevNoop
       /\ StartedElev.prom # "pending"

----------------------------------------------------------------------------
(* connect(), ensureConnected(), getConnection(), close().                 *)

\* The attempt whose promise is pending and whose transport has delivered no
\* notification and no timeout yet (0 if there is none).
Untouched(a) ==
    /\ client[a].prom = "pending"
    /\ client[a].timer
    /\ client[a].phase = "connecting"

InFlight ==
    IF \E a \in Transports : Untouched(a)
    THEN CHOOSE a \in Transports :
            Untouched(a) /\ \A b \in Transports : Untouched(b) => b <= a
    ELSE 0

\* The promise executor of connect(): new Client(), arm the 30 s timer,
\* register the four listeners, Client.connect(sshConfig).
StartAttempt(kind) ==
    /\ nTransports < MaxTransports
    /\ isConnecting' = TRUE
    /\ connectionPromise' = nTransports + 1
    /\ conn' = nTransports + 1
    /\ client' = [client EXCEPT ![nTransports + 1] = NewClient]
    /\ calls' = Append(calls, [ret |-> nTransports + 1,
                               win |-> IF InFlight # 0 THEN InFlight
                                       ELSE nTransports + 1])
    /\ UNCHANGED <<suShell, suPromise, isElevated, elev>>

\* A call that returns without opening anything: p = 0 for "already
\* connected", else the in-flight promise it hands back.
ReturnExisting(kind, p) ==
    /\ calls' = Append(calls, [ret |-> p, win |-> InFlight])
    /\ UNCHANGED <<mgr, client, elev>>

\* Faulty variant: connect() without its "already connected" early return
ConnectBodyNoEarlyReturn(kind) ==
    IF isConnecting /\ connectionPromise # 0
    THEN ReturnExisting(kind, connectionPromise)
    ELSE StartAttempt(kind)

\* async connect()
ConnectBody(kind) ==
    IF conn # 0 /\ isConnected THEN ReturnExisting(kind, 0)
    ELSE IF isConnecting /\ connectionPromise # 0
    THEN ReturnExisting(kind, connectionPromise)
    ELSE StartAttempt(kind)

Connect ==
    /\ Len(calls) < MaxCalls
    /\ ConnectBody("connect")
    /\ UNCHANGED <<cfg, execs, lastGet>>

\* async ensureConnected(): if (!this.isConnected()) await this.connect()
EnsureConnected ==
    /\ Len(calls) < MaxCalls
    /\ IF ~isConnected THEN ConnectBody("ensureConnected")
       ELSE ReturnExisting("ensureConnected", 0)
    /\ UNCHANGED <<cfg, execs, lastGet>>

\* Faulty variant: a getConnection() that connects implicitly on a null handle
GetConnectionImplicit ==
    /\ lastGet' = "handle"
    /\ IF conn = 0
       THEN /\ nTransports < MaxTransports
            /\ isConnecting' = TRUE
            /\ connectionPromise' = nTransports + 1
            /\ conn' = nTransports + 1
            /\ client' = [client EXCEPT ![nTransports + 1] = NewClient]
            /\ UNCHANGED <<suShell, suPromise, isElevated>>
       ELSE UNCHANGED <<mgr, client>>
    /\ UNCHANGED <<cfg, elev, calls, execs>>

\* getConnection(): throws 'SSH connection not established' on a null handle
GetConnection ==
    /\ lastGet' = IF conn = 0 THEN "notEstablished" ELSE "handle"
    /\ UNCHANGED <<cfg, mgr, client, elev, calls, execs>>

\* Faulty variant: a close() that ends the transport and forgets the shell
CloseBodyKeepsShell ==
    IF conn # 0
    THEN /\ client' = [client EXCEPT ![conn].ended = TRUE]
         /\ conn' = 0
         /\ UNCHANGED <<isConnecting, connectionPromise, suPromise, elev,
                        suShell, isElevated>>
    ELSE UNCHANGED <<mgr, client, elev>>

\* close()
CloseBody ==
    IF conn # 0
    THEN /\ IF suShell # 0
            THEN /\ elev' = [elev EXCEPT ![suShell].chanEnded = TRUE]
                 /\ suShell' = 0
                 /\ isElevated' = FALSE
            ELSE UNCHANGED <<elev, suShell, isElevated>>
         /\ client' = [client EXCEPT ![conn].ended = TRUE]
         /\ conn' = 0
         /\ UNCHANGED <<isConnecting, connectionPromise, suPromise>>
    ELSE UNCHANGED <<mgr, client, elev>>

Close ==
    /\ CloseBody
    /\ UNCHANGED <<cfg, calls, execs, lastGet>>

----------------------------------------------------------------------------
(* The listeners connect() registers on its Client, and its timer.         *)

\* Settling elevation attempt e resumes the v140 ready handlers that await
\* it; each then calls resolve() on its own connection promise.
Resume(cl, e) ==
    [t \in Transports |->
        IF cl[t].await = e
        THEN [cl[t] EXCEPT !.await = 0, !.prom = Settle(cl[t].prom, "resolved")]
        ELSE cl[t]]

\* setTimeout(..., 30000) callback
TimeoutHandler(t) ==
    /\ client' = [c \in Transports |->
                    LET a == IF c = conn THEN [client[c] EXCEPT !.ended = TRUE]
                             ELSE client[c]
                    IN  IF c = t
                        THEN [a EXCEPT !.timer = FALSE,
                                       !.prom = Settle(a.prom, "rejTimeout")]
                        ELSE a]
    /\ conn' = 0
    /\ isConnecting' = FALSE
    /\ connectionPromise' = 0
    /\ UNCHANGED <<suShell, suPromise, isElevated, elev>>

ConnectTimeout(t) ==
    /\ client[t].timer
    /\ TimeoutHandler(t)
    /\ UNCHANGED <<cfg, calls, execs, lastGet>>

\* v130: elevation is started in the background and resolve() follows at once.
\* v140: outside test mode the handler awaits ensureElevated() (swallowing a
\* rejection) before it calls resolve().
ReadyHandler(t) ==
    /\ isConnecting' = FALSE
    /\ IF suPassword /\ (build = "v130" \/ ~testMode)
       THEN /\ EnsureElevated
            /\ IF build = "v130" \/ ElevSettledAfterCall
               THEN client' = [client EXCEPT ![t].timer = FALSE, ![t].phase = "ready",
                                  ![t].prom = Settle(@, "resolved")]
               ELSE client' = [client EXCEPT ![t].timer = FALSE, ![t].phase = "ready",
                                  ![t].await = ElevReturn]
       ELSE /\ client' = [client EXCEPT ![t].timer = FALSE, ![t].phase = "ready",
                                  ![t].prom = Settle(@, "resolved")]
            /\ UNCHANGED <<suPromise, elev>>
    /\ UNCHANGED <<conn, connectionPromise, suShell, isElevated>>

Ready(t) ==
    /\ client[t].phase = "connecting"
    /\ ~client[t].ended
    /\ client[t].sock = "open"
    /\ ReadyHandler(t)
    /\ UNCHANGED <<cfg, calls, execs, lastGet>>

\* Faulty variant: an 'error' listener that keeps the handle
ErrorHandlerKeepsHandle(t) ==
    /\ client' = [client EXCEPT ![t].timer = FALSE, ![t].phase = "down",
                                ![t].prom = Settle(@, "rejError")]
    /\ isConnecting' = FALSE
    /\ connectionPromise' = 0
    /\ UNCHANGED <<conn, suShell, suPromise, isElevated, elev>>

\* conn.on('error', ...)
ErrorHandler(t) ==
    /\ client' = [client EXCEPT ![t].timer = FALSE, ![t].phase = "down",
                                ![t].prom = Settle(@, "rejError")]
    /\ conn' = 0
    /\ isConnecting' = FALSE
    /\ connectionPromise' = 0
    /\ UNCHANGED <<suShell, suPromise, isElevated, elev>>

Error(t) ==
    /\ client[t].phase \in {"connecting", "ready"}
    /\ ErrorHandler(t)
    /\ UNCHANGED <<cfg, calls, execs, lastGet>>

\* Faulty variant: an 'end' listener that keeps the in-flight promise
EndHandlerKeepsPromise(t) ==
    /\ client' = [client EXCEPT ![t].phase = "down",
                                ![t].endedEarly = (client[t].phase = "connecting")]
    /\ conn' = 0
    /\ UNCHANGED <<isConnecting, connectionPromise>>
    /\ UNCHANGED <<suShell, suPromise, isElevated, elev>>

\* conn.on('end', ...)
EndHandler(t) ==
    /\ client' = [client EXCEPT ![t].phase = "down",
                                ![t].endedEarly = (client[t].phase = "connecting")]
    /\ conn' = 0
    /\ isConnecting' = FALSE
    /\ connectionPromise' = 0
    /\ UNCHANGED <<suShell, suPromise, isElevated, elev>>

End(t) ==
    /\ client[t].phase \in {"connecting", "ready"}
    /\ EndHandler(t)
    /\ UNCHANGED <<cfg, calls, execs, lastGet>>

\* conn.on('close', ...); the socket is destroyed by the time it is emitted
CloseHandler(t) ==
    /\ client' = [client EXCEPT ![t].phase = "closed", ![t].sock = "destroyed",
                                ![t].endedEarly = @ \/ client[t].phase = "connecting"]
    /\ conn' = 0
    /\ isConnecting' = FALSE
    /\ connectionPromise' = 0
    /\ UNCHANGED <<suShell, suPromise, isElevated, elev>>

Closed(t) ==
    /\ client[t].phase \in {"connecting", "ready", "down"}
    /\ CloseHandler(t)
    /\ UNCHANGED <<cfg, calls, execs, lastGet>>

\* The socket is torn down one tick before 'close' is delivered: the handle
\* is still set while _sock.destroyed is already true.
SockDestroyed(t) ==
    /\ client[t].phase \in {"connecting", "ready", "down"}
    /\ client[t].sock = "open"
    /\ client' = [client EXCEPT ![t].sock = "destroyed"]
    /\ UNCHANGED <<cfg, mgr, elev, calls, execs, lastGet>>

----------------------------------------------------------------------------
(* execSshCommandWithConnection(manager, command, stdin)                   *)

\* Client.exec() throws 'Not connected' when the socket is not writable.
ExecThrows(c) == client[c].sock # "open" \/ client[c].ended

\* resolve(...) or reject(...) called by a callback of the call
SettleExec(rec, outcome, text, code) ==
    [rec EXCEPT !.settles = @ + 1,
                !.outcome = IF @ = "none" THEN outcome ELSE @,
                !.text = IF rec.outcome = "none" THEN text ELSE @,
                !.code = IF rec.outcome = "none" THEN code ELSE @]

\* The promise executor. getConnection() throws on a null handle before the
\* timer exists; exec() may throw after the timer was armed.
StartedExec(stdin) ==
    IF conn = 0
    THEN [NoExec EXCEPT !.st = "called", !.stdin = stdin,
                         !.outcome = "notEstablished"]
    ELSE IF suShell # 0
    THEN [NoExec EXCEPT !.st = "called", !.stdin = stdin, !.tr = conn,
                         !.via = suShell, !.timer = TRUE, !.writes = 1,
                         !.cb = IF build = "v130" THEN "stream" ELSE "none",
                         !.listening = (build = "v140")]
    ELSE IF ExecThrows(conn)
    THEN [NoExec EXCEPT !.st = "called", !.stdin = stdin, !.tr = conn,
                         !.timer = TRUE, !.outcome = "threw"]
    ELSE [NoExec EXCEPT !.st = "called", !.stdin = stdin, !.tr = conn,
                         !.timer = TRUE, !.writes = 1,
                         !.pty = (build = "v130" /\ stdin)]

\* v130 hands the shared shell to the exec callback, which calls
\* stream.end() on it; v140 only attaches its data handler and writes.
ExecCall(stdin) ==
    /\ nExecs < MaxExec
    /\ execs' = [execs EXCEPT ![nExecs + 1] = StartedExec(stdin)]
    /\ elev' = IF conn # 0 /\ suShell # 0 /\ build = "v130"
               THEN [elev EXCEPT ![suShell].chanEnded = TRUE]
               ELSE elev
    /\ UNCHANGED <<cfg, mgr, client, calls, lastGet>>

\* exec callback with err
ExecErrCallback(rec) ==
    IF ~rec.isResolved
    THEN SettleExec([rec EXCEPT !.cb = "err", !.isResolved = TRUE,
                                !.timer = FALSE], "execError", << >>, 0)
    ELSE [rec EXCEPT !.cb = "err"]

\* Faulty variant: an exec error that also closes the session
ExecCbErrClosesSession(k) ==
    /\ execs[k].st = "called" /\ execs[k].writes = 1
    /\ execs[k].via = 0 /\ execs[k].cb = "none"
    /\ execs' = [execs EXCEPT ![k] = ExecErrCallback(execs[k])]
    /\ CloseBody
    /\ UNCHANGED <<cfg, calls, lastGet>>

ExecCbErr(k) ==
    /\ execs[k].st = "called" /\ execs[k].writes = 1
    /\ execs[k].via = 0 /\ execs[k].cb = "none"
    /\ execs' = [execs EXCEPT ![k] = ExecErrCallback(execs[k])]
    /\ UNCHANGED <<cfg, mgr, client, elev, calls, lastGet>>

\* exec callback with a stream: listeners attached, stdin written, end()
ExecCbStream(k) ==
    /\ execs[k].st = "called" /\ execs[k].writes = 1
    /\ execs[k].via = 0 /\ execs[k].cb = "none"
    /\ client[execs[k].tr].phase = "ready"
    /\ client[execs[k].tr].sock = "open"
    /\ execs' = [execs EXCEPT ![k].cb = "stream"]
    /\ UNCHANGED <<cfg, mgr, client, elev, calls, lastGet>>

\* Faulty variant: stdout kept in one buffer shared by all running calls
ExecDataShared(k, c) ==
    /\ execs[k].via = 0 /\ execs[k].cb = "stream" /\ ~execs[k].closed
    /\ Len(execs[k].out) + Len(execs[k].err) < MaxOut
    /\ execs' = [j \in Execs |->
                   IF execs[j].cb = "stream" /\ ~execs[j].closed
                   THEN [execs[j] EXCEPT !.out = Append(@, c)]
                   ELSE execs[j]]
    /\ UNCHANGED <<cfg, mgr, client, elev, calls, lastGet>>

\* stream.on('data', ...) and stream.stderr.on('data', ...)
ExecData(k, c) ==
    /\ execs[k].via = 0 /\ execs[k].cb = "stream" /\ ~execs[k].closed
    /\ Len(execs[k].out) + Len(execs[k].err) < MaxOut
    /\ execs' = [execs EXCEPT ![k].out = Append(@, c)]
    /\ UNCHANGED <<cfg, mgr, client, elev, calls, lastGet>>

ExecStderr(k, c) ==
    /\ execs[k].via = 0 /\ execs[k].cb = "stream" /\ ~execs[k].closed
    /\ Len(execs[k].out) + Len(execs[k].err) < MaxOut
    /\ execs' = [execs EXCEPT ![k].err = Append(@, c)]
    /\ UNCHANGED <<cfg, mgr, client, elev, calls, lastGet>>

\* Faulty variant: a close listener that classifies by the exit code
CloseListenerByExitCode(rec, code) ==
    IF ~rec.isResolved
    THEN IF code # 0
         THEN SettleExec([rec EXCEPT !.closed = TRUE, !.isResolved = TRUE,
                                     !.timer = FALSE],
                         "stderrFail", rec.err, code)
         ELSE SettleExec([rec EXCEPT !.closed = TRUE, !.isResolved = TRUE,
                                     !.timer = FALSE],
                         "success", rec.out, code)
    ELSE [rec EXCEPT !.closed = TRUE]

\* Faulty variant: a close listener without the isResolved guard
CloseListenerUnguarded(rec, code) ==
    IF rec.err # << >>
    THEN SettleExec([rec EXCEPT !.closed = TRUE, !.isResolved = TRUE,
                                !.timer = FALSE],
                    "stderrFail", rec.err, code)
    ELSE SettleExec([rec EXCEPT !.closed = TRUE, !.isResolved = TRUE,
                                !.timer = FALSE],
                    "success", rec.out, code)

\* Faulty variant: a close listener that settles and leaves the timer armed
CloseListenerKeepsTimer(rec, code) ==
    IF ~rec.isResolved
    THEN IF rec.err # << >>
         THEN SettleExec([rec EXCEPT !.closed = TRUE], "stderrFail", rec.err, code)
         ELSE SettleExec([rec EXCEPT !.closed = TRUE], "success", rec.out, code)
    ELSE [rec EXCEPT !.closed = TRUE]

\* stream.on('close', (code, signal) => ...)
CloseListener(rec, code) ==
    IF ~rec.isResolved
    THEN IF rec.err # << >>
         THEN SettleExec([rec EXCEPT !.closed = TRUE, !.isResolved = TRUE,
                                     !.timer = FALSE],
                         "stderrFail", rec.err, code)
         ELSE SettleExec([rec EXCEPT !.closed = TRUE, !.isResolved = TRUE,
                                     !.timer = FALSE],
                         "success", rec.out, code)
    ELSE [rec EXCEPT !.closed = TRUE]

ExecClose(k, code) ==
    /\ execs[k].via = 0 /\ execs[k].cb = "stream" /\ ~execs[k].closed
    /\ execs' = [execs EXCEPT ![k] = CloseListener(execs[k], code)]
    /\ UNCHANGED <<cfg, mgr, client, elev, calls, lastGet>>

\* Faulty variant: a timer callback that runs the command once more
TimeoutCallbackRetries(rec) ==
    IF ~rec.isResolved
    THEN [rec EXCEPT !.writes = @ + 1]
    ELSE [rec EXCEPT !.timer = FALSE]

\* The per-command timer. v130 first issues the pkill exec on the captured
\* connection (exec() may throw, and then reject() is never reached); v140
\* only rejects.
TimeoutCallback(rec) ==
    IF ~rec.isResolved
    THEN IF build = "v130"
         THEN IF ExecThrows(rec.tr)
              THEN [rec EXCEPT !.timer = FALSE, !.isResolved = TRUE,
                               !.abort = "threw"]
              ELSE SettleExec([rec EXCEPT !.timer = FALSE, !.isResolved = TRUE,
                                          !.abort = "issued"],
                              "timeout", << >>, 0)
         ELSE SettleExec([rec EXCEPT !.timer = FALSE, !.isResolved = TRUE],
                         "timeout", << >>, 0)
    ELSE [rec EXCEPT !.timer = FALSE]

ExecTimeout(k) ==
    /\ execs[k].timer
    /\ execs' = [execs EXCEPT ![k] = TimeoutCallback(execs[k])]
    /\ UNCHANGED <<cfg, mgr, client, elev, calls, lastGet>>

\* v140: lines.slice(1, -1) of buffer.split('\n'). A buffer that ends in a
\* newline splits into its lines plus a last empty string; one that ends in
\* the prompt splits into its lines plus the prompt.
ExtractOutput(b) ==
    IF Len(b) = 0 THEN << >>
    ELSE IF b[Len(b)] = "prompt" THEN SubSeq(b, 2, Len(b) - 1)
    ELSE SubSeq(b, 2, Len(b))

\* v140: /#/.test(buffer)
ShellHash(b) == \E i \in DOMAIN b : b[i] \in {"hashline", "prompt"}

\* v140 dataHandler on the shared shell
DataHandler140(rec, tok) ==
    LET b == Append(rec.out, tok) IN
    IF ShellHash(b)
    THEN IF ~rec.isResolved
         THEN SettleExec([rec EXCEPT !.out = b, !.isResolved = TRUE,
                                     !.timer = FALSE, !.listening = FALSE],
                         "success", ExtractOutput(b), 0)
         ELSE [rec EXCEPT !.out = b, !.listening = FALSE]
    ELSE [rec EXCEPT !.out = b]

\* One data chunk of elevated shell e reaches every command listening on it.
ShellDataListeners(e, tok) ==
    [k \in Execs |->
        IF execs[k].via = e /\ execs[k].listening
        THEN DataHandler140(execs[k], tok)
        ELSE IF execs[k].via = e /\ execs[k].cb = "stream" /\ ~execs[k].closed
        THEN [execs[k] EXCEPT !.out = Append(@, tok)]
        ELSE execs[k]]

ShellData(e, tok) ==
    /\ elev[e].phase = "stream" /\ ~elev[e].chanClosed /\ ~elev[e].listening
    /\ \E k \in Execs :
          /\ execs[k].via = e
          /\ execs[k].listening \/ (execs[k].cb = "stream" /\ ~execs[k].closed)
    /\ \A k \in Execs : execs[k].via = e => Len(execs[k].out) < MaxOut
    /\ execs' = ShellDataListeners(e, tok)
    /\ UNCHANGED <<cfg, mgr, client, elev, calls, lastGet>>

\* 'close' of elevated shell e reaches the v130 commands that were handed it.
ShellCloseListeners(e) ==
    [k \in Execs |->
        IF execs[k].via = e /\ execs[k].cb = "stream" /\ ~execs[k].closed
        THEN CloseListener(execs[k], 0)
        ELSE execs[k]]

----------------------------------------------------------------------------
(* The callbacks of ensureElevated(): shell(), data, close, safety timer.  *)

Has(b, tok) == \E i \in DOMAIN b : b[i] = tok
EndsWith(b, tok) == Len(b) > 0 /\ b[Len(b)] = tok

\* v130: /password[: ]*$/i
PromptAtEnd(b) == EndsWith(b, "prompt")
\* v130: /\n[^\n]*# $/.test(buffer) || /root[@:]/i.test(buffer)
RootPrompt130(b) == EndsWith(b, "hash") \/ Has(b, "rootat")
\* v140: /password[: ]/i
PromptSeen(b) == Has(b, "prompt")
\* v140: /#/
HashSeen(b) == Has(b, "hash")
\* /authentication failure|incorrect password|su: .*failed/i (v140 adds
\* su: failure)
AuthFailure(b) == Has(b, "fail")

\* reject(...) of attempt e with this.suPromise = null
ElevReject(e, rec) ==
    /\ elev' = [elev EXCEPT ![e] = [rec EXCEPT !.prom = Settle(@, "rejected")]]
    /\ suPromise' = 0
    /\ client' = IF elev[e].prom = "pending" THEN Resume(client, e) ELSE client
    /\ UNCHANGED <<suShell, isElevated>>

\* this.suShell = stream; this.isElevated = true; this.suPromise = null;
\* resolve()
ElevResolve(e, rec) ==
    /\ elev' = [elev EXCEPT ![e] = [rec EXCEPT !.prom = Settle(@, "resolved")]]
    /\ suShell' = e
    /\ isElevated' = TRUE
    /\ suPromise' = 0
    /\ client' = IF elev[e].prom = "pending" THEN Resume(client, e) ELSE client

\* Nothing settles: only the attempt's own record changes.
ElevKeep(e, rec) ==
    /\ elev' = [elev EXCEPT ![e] = rec]
    /\ UNCHANGED <<suShell, isElevated, suPromise, client>>

\* shell() callback with err
ShellErrHandler(e) ==
    ElevReject(e, [elev[e] EXCEPT !.phase = "nostream", !.timer = FALSE])

ShellOpenErr(e) ==
    /\ elev[e].phase = "opening"
    /\ ShellErrHandler(e)
    /\ UNCHANGED <<cfg, conn, isConnecting, connectionPromise, calls, execs,
                   lastGet>>

\* shell() callback with a stream: listeners attached, 'su -\n' written
ShellOpenOk(e) ==
    /\ elev[e].phase = "opening"
    /\ client[elev[e].tr].phase = "ready"
    /\ client[elev[e].tr].sock = "open"
    /\ ElevKeep(e, [elev[e] EXCEPT !.phase = "stream", !.listening = TRUE])
    /\ UNCHANGED <<cfg, conn, isConnecting, connectionPromise, calls, execs,
                   lastGet>>

\* onData of src/src/index.ts
OnData130(e, tok) ==
    LET b == Append(elev[e].buf, tok) IN
    IF PromptAtEnd(b)
    THEN ElevKeep(e, [elev[e] EXCEPT !.buf = << >>, !.pwWrites = @ + 1])
    ELSE IF RootPrompt130(b)
    THEN ElevResolve(e, [elev[e] EXCEPT !.buf = b, !.listening = FALSE])
    ELSE IF AuthFailure(b)
    THEN ElevReject(e, [elev[e] EXCEPT !.buf = b, !.listening = FALSE])
    ELSE ElevKeep(e, [elev[e] EXCEPT !.buf = b])

\* onData of v1.4.0
OnData140(e, tok) ==
    LET b == Append(elev[e].buf, tok)
        send == ~elev[e].pwSent /\ PromptSeen(b)
        sent == elev[e].pwSent \/ send
        rec == [elev[e] EXCEPT !.buf = b, !.pwSent = sent,
                               !.pwWrites = IF send THEN @ + 1 ELSE @]
    IN
    IF sent /\ HashSeen(b)
    THEN ElevResolve(e, [rec EXCEPT !.timer = FALSE, !.listening = FALSE])
    ELSE IF AuthFailure(b)
    THEN ElevReject(e, [rec EXCEPT !.timer = FALSE, !.listening = FALSE])
    ELSE ElevKeep(e, rec)

ElevData(e, tok) ==
    /\ elev[e].phase = "stream"
    /\ elev[e].listening
    /\ ~elev[e].chanClosed
    /\ Len(elev[e].buf) < MaxBuf
    /\ elev[e].pwWrites < MaxPwWrites
    /\ IF build = "v130" THEN OnData130(e, tok) ELSE OnData140(e, tok)
    /\ UNCHANGED <<cfg, conn, isConnecting, connectionPromise, calls, execs,
                   lastGet>>

\* stream.on('close', ...)
ElevCloseHandler(e) ==
    LET rec == [elev[e] EXCEPT !.chanClosed = TRUE,
                               !.timer = IF build = "v140" THEN FALSE ELSE @]
    IN  IF ~isElevated THEN ElevReject(e, rec) ELSE ElevKeep(e, rec)

ElevChanClose(e) ==
    /\ elev[e].phase = "stream"
    /\ ~elev[e].chanClosed
    /\ ElevCloseHandler(e)
    /\ execs' = ShellCloseListeners(e)
    /\ UNCHANGED <<cfg, conn, isConnecting, connectionPromise, calls, lastGet>>

\* v140: setTimeout(..., 10000) callback
ElevTimeoutHandler(e) ==
    ElevReject(e, [elev[e] EXCEPT !.timer = FALSE])

ElevTimeout(e) ==
    /\ elev[e].timer
    /\ ElevTimeoutHandler(e)
    /\ UNCHANGED <<cfg, conn, isConnecting, connectionPromise, calls, execs,
                   lastGet>>

Next ==
    \/ Connect
    \/ EnsureConnected
    \/ GetConnection
    \/ Close
    \/ \E t \in Transports : ConnectTimeout(t)
    \/ \E t \in Transports : Ready(t)
    \/ \E t \in Transports : Error(t)
    \/ \E t \in Transports : End(t)
    \/ \E t \in Transports : Closed(t)
    \/ \E t \in Transports : SockDestroyed(t)

Spec == Init /\ [][Next]_vars

\* v140: the tool handlers (and setSuPassword) call ensureElevated()
\* themselves, after their `await ensureConnected()` has returned.
ElevCall ==
    /\ build = "v140"
    /\ isConnected
    /\ EnsureElevated
    /\ UNCHANGED <<cfg, conn, isConnecting, connectionPromise, suShell,
                   isElevated, client, calls, execs, lastGet>>

\* Faulty variant: a setSuPassword() that keeps the shell of a cleared secret
SetSuPasswordKeepsShell(pwd) ==
    /\ build = "v140"
    /\ isConnected
    /\ suSecret' = pwd
    /\ suPassword' = (pwd # 0)
    /\ IF pwd # 0
       THEN /\ IF (isElevated /\ suShell # 0) \/ suPromise # 0
               THEN UNCHANGED <<suPromise, elev>>
               ELSE /\ nElevs < MaxElev
                    /\ suPromise' = nElevs + 1
                    /\ elev' = [elev EXCEPT ![nElevs + 1] = StartedElev]
            /\ UNCHANGED <<suShell, isElevated>>
       ELSE UNCHANGED <<elev, suShell, isElevated, suPromise>>
    /\ UNCHANGED <<build, testMode, proc, legacy, conn, isConnecting,
                   connectionPromise, client, calls, execs, lastGet>>

\* v140 setSuPassword(pwd): the secret is replaced first; a non-empty one is
\* followed by ensureElevated(), an empty one drops the stored shell. The
\* sudo-exec handler calls it after its `await ensureConnected()`.
SetSuPassword(pwd) ==
    /\ build = "v140"
    /\ isConnected
    /\ suSecret' = pwd
    /\ suPassword' = (pwd # 0)
    /\ IF pwd # 0
       THEN /\ IF (isElevated /\ suShell # 0) \/ suPromise # 0
               THEN UNCHANGED <<suPromise, elev>>
               ELSE /\ nElevs < MaxElev
                    /\ suPromise' = nElevs + 1
                    /\ elev' = [elev EXCEPT ![nElevs + 1] = StartedElev]
            /\ UNCHANGED <<suShell, isElevated>>
       ELSE /\ IF suShell # 0
               THEN /\ elev' = [elev EXCEPT ![suShell].chanEnded = TRUE]
                    /\ suShell' = 0
                    /\ isElevated' = FALSE
               ELSE UNCHANGED <<elev, suShell, isElevated>>
            /\ UNCHANGED suPromise
    /\ UNCHANGED <<build, testMode, proc, legacy, conn, isConnecting,
                   connectionPromise, client, calls, execs, lastGet>>

NextElev ==
    \/ (Len(calls) < ElevCalls /\ EnsureConnected)
    \/ Close
    \/ \E t \in Transports : ConnectTimeout(t)
    \/ \E t \in Transports : Ready(t)
    \/ \E t \in Transports : Error(t)
    \/ \E t \in Transports : End(t)
    \/ \E t \in Transports : Closed(t)
    \/ \E e \in Elevs : ShellOpenErr(e)
    \/ \E e \in Elevs : ShellOpenOk(e)
    \/ \E e \in Elevs, tok \in Tokens : ElevData(e, tok)
    \/ \E e \in Elevs : ElevChanClose(e)
    \/ \E e \in Elevs : ElevTimeout(e)

SpecElev == InitElev /\ [][NextElev]_vars

\* The elevation engine on one connection, with the direct ensureElevated()
\* calls of the v140 handlers.
NextSu ==
    \/ (Len(calls) < SuConnects /\ EnsureConnected)
    \/ ElevCall
    \/ \E pwd \in 0..MaxSecrets : SetSuPassword(pwd)
    \/ \E t \in Transports : Ready(t)
    \/ \E t \in Transports : Closed(t)
    \/ \E e \in Elevs : ShellOpenErr(e)
    \/ \E e \in Elevs : ShellOpenOk(e)
    \/ \E e \in Elevs, tok \in Tokens : ElevData(e, tok)
    \/ \E e \in Elevs : ElevChanClose(e)
    \/ \E e \in Elevs : ElevTimeout(e)

SpecSu == InitElev /\ [][NextSu]_vars

\* A session on which connect() has resolved; with --suPassword the su
\* handshake has completed as well.
ConnectedClient ==
    [NoClient EXCEPT !.phase = "ready", !.sock = "open", !.prom = "resolved"]

ElevatedShell ==
    [NoElev EXCEPT !.prom = "resolved", !.phase = "stream", !.tr = 1,
                   !.pwWrites = 1, !.pwSent = (build = "v140"),
                   !.buf = IF build = "v140" THEN <<"prompt", "hash">>
                           ELSE <<"hash">>]

InitExec ==
    /\ build \in {"v130", "v140"}
    /\ Standalone
    /\ testMode = FALSE
    /\ suPassword \in BOOLEAN
    /\ suSecret = (IF suPassword THEN 1 ELSE 0)
    /\ conn = 1
    /\ isConnecting = FALSE
    /\ connectionPromise = 1
    /\ suShell = IF suPassword THEN 1 ELSE 0
    /\ isElevated = suPassword
    /\ suPromise = 0
    /\ client = [t \in Transports |-> IF t = 1 THEN ConnectedClient ELSE NoClient]
    /\ elev = [e \in Elevs |->
                IF e = 1 /\ suPassword THEN ElevatedShell ELSE NoElev]
    /\ calls = << [ret |-> 1, win |-> 1] >>
    /\ execs = [k \in Execs |-> NoExec]
    /\ lastGet = "none"

NextExec ==
    \/ \E stdin \in BOOLEAN : ExecCall(stdin)
    \/ \E k \in Execs : ExecCbErr(k)
    \/ \E k \in Execs : ExecCbStream(k)
    \/ \E k \in Execs, c \in Chunks : ExecData(k, c)
    \/ \E k \in Execs, c \in Chunks : ExecStderr(k, c)
    \/ \E k \in Execs, code \in {0, 1} : ExecClose(k, code)
    \/ \E k \in Execs : ExecTimeout(k)
    \/ \E e \in Elevs, tok \in ShellTokens : ShellData(e, tok)
    \/ \E e \in Elevs : ElevChanClose(e)
    \/ \E t \in Transports : SockDestroyed(t)
    \/ \E t \in Transports : Closed(t)

SpecExec == InitExec /\ [][NextExec]_vars

----------------------------------------------------------------------------
(* Properties of the session state machine (Spec).                         *)

Rejected == {"rejError", "rejTimeout"}
Disconnected == conn = 0 /\ ~isConnecting /\ connectionPromise = 0

\* How a connect()/ensureConnected() call has settled so far.
CallOutcome(c) == IF c.ret = 0 THEN "resolved" ELSE client[c.ret].prom

\* C1: calls issued while one connection attempt is in flight open no second
\* transport and all settle with the same outcome.
C1_SingleFlight ==
    \A i, j \in DOMAIN calls :
        (calls[i].win # 0 /\ calls[i].win = calls[j].win) =>
            /\ calls[i].ret \in {0, calls[i].win}
            /\ (CallOutcome(calls[i]) # "pending" /\ CallOutcome(calls[j]) # "pending")
                   => CallOutcome(calls[i]) = CallOutcome(calls[j])

\* Transports the session opened that were neither ended nor closed and
\* have delivered no error or end notification.
LiveTransports ==
    {t \in Transports : client[t].phase \in {"connecting", "ready"} /\ ~client[t].ended}
\* Connection attempts whose promise is unsettled and whose timer is armed.
PendingAttempts ==
    {t \in Transports : client[t].prom = "pending" /\ client[t].timer}
PendingElevations == {e \in Elevs : elev[e].prom = "pending"}

\* C2: at most one live transport, at most one in-flight connection attempt
\* and at most one in-flight elevation attempt, in every reachable state.
C2_AtMostOne ==
    /\ Cardinality(LiveTransports) <= 1
    /\ Cardinality(PendingAttempts) <= 1
    /\ Cardinality(PendingElevations) <= 1

\* The session was connected on another transport and closed it with close().
ClosedBefore(t) ==
    \E u \in Transports \ {t} : client[u].prom = "resolved" /\ client[u].ended

\* C3: when the connection attempt made after a close() resolves, the session
\* holds the new transport and isConnected() is true.
C3_Reconnect ==
    [][\A t \in Transports :
          (client[t].prom = "pending" /\ client'[t].prom = "resolved" /\ ClosedBefore(t))
              => (conn' = t /\ isConnected')]_vars

\* C4: with no transport handle isConnected() is false and getConnection()
\* fails with 'not established'; close() leaves no handle; getConnection()
\* opens no transport and changes no session field.
C4_NoHandle ==
    [][/\ (conn' = 0 => ~isConnected')
       /\ (Close => (conn' = 0 /\ ~isConnected'))
       /\ (GetConnection =>
              /\ UNCHANGED <<mgr, client, elev>>
              /\ (conn = 0 <=> lastGet' = "notEstablished"))]_vars

C4_Witness ==
    /\ conn = 0
    /\ lastGet = "notEstablished"
    /\ \E t \in Transports : client[t].prom = "resolved" /\ client[t].ended

\* C5: on a connected session connect() and ensureConnected() return at once
\* and change nothing: no new transport, same handle, flag and elevation.
C5_ConnectNoop ==
    [][(isConnected /\ (Connect \/ EnsureConnected)) =>
          /\ UNCHANGED <<mgr, client, elev>>
          /\ calls'[Len(calls')].ret = 0]_vars

C5_Witness ==
    /\ isConnected
    /\ client[conn].phase = "ready"
    /\ Len(calls) >= 2
    /\ calls[Len(calls)].ret = 0

\* C6: an attempt resolves on ready with its timer disarmed, and it fails
\* when its transport delivers end or close before ready.
C6_AttemptOutcome ==
    \A t \in Transports :
        /\ client[t].phase = "ready" => (client[t].prom = "resolved" /\ ~client[t].timer)
        /\ client[t].endedEarly => client[t].prom \in Rejected

\* Attempt t fails in this step: its promise is rejected, or its transport
\* delivers end/close before it was ready.
FailsNow(t) ==
    \/ client[t].prom = "pending" /\ client'[t].prom \in Rejected
    \/ ~client[t].endedEarly /\ client'[t].endedEarly

\* C7: a failed attempt leaves the session Disconnected (no handle, flag
\* false, no promise retained), and connect()/ensureConnected() on a
\* Disconnected session start a brand-new attempt on a new transport.
C7_FailureResets ==
    [][/\ (\E t \in Transports : FailsNow(t)) => Disconnected'
       /\ (Disconnected /\ (Connect \/ EnsureConnected)) =>
              /\ conn' = nTransports + 1
              /\ connectionPromise' = nTransports + 1
              /\ client'[nTransports + 1] = NewClient
              /\ calls'[Len(calls')].ret = nTransports + 1]_vars

C7_Witness ==
    /\ client[1].prom \in Rejected \/ client[1].endedEarly
    /\ client[2].phase = "connecting"
    /\ conn = 2 /\ connectionPromise = 2
    /\ calls[Len(calls)].ret = 2

----------------------------------------------------------------------------
(* Properties of the elevation engine (SpecElev).                          *)

\* C8: with a secret configured, connect() resolves in the ready step itself,
\* no settlement of the elevation attempt rejects it, and a failed elevation
\* leaves no elevated channel stored.
C8_ElevationInBackground ==
    [][/\ \A t \in Transports :
            (client[t].phase = "connecting" /\ client'[t].phase = "ready"
                /\ client[t].prom = "pending") => client'[t].prom = "resolved"
       /\ \A e \in Elevs :
            (elev[e].prom = "pending" /\ elev'[e].prom = "rejected") =>
                /\ \A t \in Transports :
                      client[t].prom = "pending" => client'[t].prom \notin Rejected
                /\ suShell' # e]_vars

\* C9: a session without a transport handle has no elevated channel and is
\* not elevated.
C9_ElevationWithinConnection ==
    conn = 0 => (suShell = 0 /\ ~isElevated)

----------------------------------------------------------------------------
(* Properties of the command execution engine (SpecExec).                  *)

Classified == {"success", "execError", "stderrFail", "timeout"}

\* C10: the callbacks of one call settle it at most once, and a command that
\* was issued is settled with exactly one of the four classified outcomes.
C10_SettlesOnce ==
    \A k \in Execs :
        /\ execs[k].settles <= 1
        /\ execs[k].settles = 1 => execs[k].isResolved
        /\ execs[k].writes = 1 =>
              /\ execs[k].outcome \in Classified \cup {"none"}
              /\ (execs[k].outcome = "none" <=> execs[k].settles = 0)

\* The timer fired first and the channel closed afterwards.
C10_Witness ==
    \E k \in Execs :
        /\ execs[k].outcome = "timeout"
        /\ execs[k].closed
        /\ execs[k].settles = 1

\* The per-command timer of call k expires before anything settled the call.
TimesOut(k) == ExecTimeout(k) /\ ~execs[k].isResolved

\* C11: when the per-command timer expires first, the call fails with the
\* timeout error, and the timeout handling leaves the session's transport
\* alone (handle, flags and socket unchanged).
C11_TimeoutKeepsSession ==
    [][\A k \in Execs :
          TimesOut(k) =>
              /\ execs'[k].outcome = "timeout"
              /\ UNCHANGED <<mgr, client>>
              /\ isConnected' = isConnected]_vars

\* C12: on timeout of a fresh-channel command the pkill abort is issued on
\* the same transport and the timeout failure is reported in every case.
C12_AbortThenReport ==
    [][\A k \in Execs :
          (TimesOut(k) /\ execs[k].via = 0) =>
              /\ execs'[k].abort = "issued"
              /\ execs'[k].outcome = "timeout"]_vars

\* C13: on timeout of a command written into the shared elevated shell the
\* timeout is reported and no abort command is issued anywhere.
C13_NoAbortInSharedShell ==
    [][\A k \in Execs :
          (TimesOut(k) /\ execs[k].via # 0) =>
              /\ execs'[k].outcome = "timeout"
              /\ execs'[k].abort = "none"
              /\ execs'[k].writes = execs[k].writes]_vars

\* C14: when a fresh channel closes before the timeout, the call fails iff
\* standard-error data was captured, with the exit code and the whole
\* captured stderr in the message; otherwise it succeeds with exactly the
\* captured standard output, whatever the exit code.
C14_CloseClassification ==
    [][\A k \in Execs, code \in {0, 1} :
          (ExecClose(k, code) /\ execs[k].via = 0 /\ ~execs[k].isResolved) =>
              IF execs[k].err # << >>
              THEN /\ execs'[k].outcome = "stderrFail"
                   /\ execs'[k].text = execs[k].err
                   /\ execs'[k].code = code
              ELSE /\ execs'[k].outcome = "success"
                   /\ execs'[k].text = execs[k].out]_vars

\* A command that wrote to both streams and exited 0 failed with its stderr.
C14_Witness ==
    \E k \in Execs :
        /\ execs[k].via = 0 /\ execs[k].closed
        /\ execs[k].outcome = "stderrFail"
        /\ execs[k].out # << >> /\ execs[k].text = execs[k].err
        /\ execs[k].code = 0

\* A call that runs on an exec channel of its own.
FreshCall(k) == execs[k].st = "called" /\ execs[k].via = 0

\* C15: concurrent fresh-channel commands are independent: each call has its
\* own channel, no step of one call touches another call's state, and a call
\* resolves with the output captured on its own channel in whatever order
\* the channels deliver data and close.
C15_IndependentCalls ==
    [][/\ \A k \in Execs :
            (execs[k].st = "unused" /\ execs'[k].st = "called" /\ suShell = 0
                /\ conn # 0 /\ ~ExecThrows(conn)) =>
                (execs'[k].via = 0 /\ execs'[k].writes = 1)
       /\ \A k \in Execs :
            (execs'[k] # execs[k]) =>
                \A j \in Execs \ {k} : FreshCall(j) => execs'[j] = execs[j]
       /\ \A k \in Execs, code \in {0, 1} :
            (ExecClose(k, code) /\ FreshCall(k) /\ ~execs[k].isResolved
                /\ execs[k].err = << >>) =>
                (execs'[k].outcome = "success" /\ execs'[k].text = execs[k].out)]_vars

\* The second call has completed with its own output while the first call,
\* issued earlier, is still open and holds different output.
C15_Witness ==
    /\ FreshCall(1) /\ execs[1].cb = "stream" /\ ~execs[1].closed
    /\ execs[1].out = <<"a">>
    /\ FreshCall(2) /\ execs[2].outcome = "success"
    /\ execs[2].text = <<"b">>

\* C16: executing commands never changes the session's connection: no step
\* of a command (call, exec callback, data, close, timeout) opens a
\* transport or touches the handle, the flags or the socket, so
\* isConnected() stays as it was.
C16_ExecKeepsConnection ==
    [][(execs' # execs) =>
          /\ UNCHANGED <<mgr, client>>
          /\ nTransports' = nTransports
          /\ isConnected' = isConnected]_vars

\* A command failed with an exec error or on stderr, and a further command
\* succeeded on the same, still connected, transport.
C16_Witness ==
    /\ isConnected /\ nTransports = 1
    /\ execs[1].outcome \in {"stderrFail", "execError"}
    /\ execs[2].outcome = "success"
    /\ execs[2].tr = conn /\ execs[1].tr = conn

----------------------------------------------------------------------------
(* Properties of ensureElevated() and its callbacks (SpecElev, SpecSu).    *)

\* ensureElevated() can be called in this state: by a v140 handler on a
\* connected session, or by the ready listener of a connecting transport.
CanCallElev ==
    \/ build = "v140" /\ isConnected
    \/ \E t \in Transports :
          client[t].phase = "connecting" /\ ~client[t].ended /\ client[t].sock = "open"

\* C17: while an elevation attempt is in flight, a further ensureElevated()
\* call opens no additional shell and returns the promise of the in-flight
\* attempt, so it settles with that attempt's outcome.
C17_SingleFlightElevation ==
    (suPassword /\ CanCallElev /\ PendingElevations # {}) =>
        /\ ElevNoop
        /\ ElevReturn \in PendingElevations

\* C18: during one elevation attempt the secret is written to the channel at
\* most once, whatever data chunks arrive.
C18_PasswordOnce ==
    \A e \in Elevs : elev[e].pwWrites <= 1

\* C19: every elevation attempt reaches a terminal outcome: an attempt that
\* is still pending has its safety timer armed, so that a silent channel
\* cannot leave it pending forever.
C19_SafetyTimeout ==
    \A e \in Elevs : elev[e].prom = "pending" => elev[e].timer

\* C20: the elevation state reverts to NotElevated when the elevated channel
\* closes: on a connected session the stored elevated channel is never a
\* channel that has emitted close, and the elevated flag is not left set
\* for it.
C20_RevertOnChannelClose ==
    \A e \in Elevs :
        (isConnected /\ elev[e].chanClosed /\ elev[e].prom = "resolved") =>
            (suShell # e /\ (suShell = 0 => ~isElevated))

\* C21: setSuPassword with a new non-empty secret on an Elevated session ends
\* the existing elevated channel and resets the state to NotElevated; the old
\* channel is not kept as the elevated shell under the new secret.
C21_ReElevation ==
    [][\A pwd \in 1..MaxSecrets :
          (SetSuPassword(pwd) /\ pwd # suSecret /\ isElevated /\ suShell # 0) =>
              /\ suShell' # suShell
              /\ elev'[suShell].chanEnded
              /\ (suShell' = 0 => ~isElevated')]_vars

----------------------------------------------------------------------------
(* Properties of commands in the shared elevated shell (SpecExec).         *)

\* A step of a command that runs in the shared elevated shell: the call
\* itself, a data chunk delivered to it, or its timer.
SharedShellStep ==
    \/ \E stdin \in BOOLEAN : ExecCall(stdin)
    \/ \E e \in Elevs, tok \in ShellTokens : ShellData(e, tok)
    \/ \E k \in Execs : ExecTimeout(k) /\ execs[k].via # 0

\* C22: a command run through the shared elevated shell never ends that
\* channel: after each of its steps the same channel is still stored,
\* neither ended nor closed, and a command called on an elevated session is
\* written into the stored channel.
C22_ShellStaysResident ==
    [][(conn # 0 /\ suShell # 0 /\ SharedShellStep) =>
          /\ suShell' = suShell
          /\ isElevated' = isElevated
          /\ elev'[suShell].chanEnded = elev[suShell].chanEnded
          /\ elev'[suShell].chanClosed = elev[suShell].chanClosed
          /\ \A k \in Execs :
                (execs[k].st = "unused" /\ execs'[k].st = "called") =>
                    execs'[k].via = suShell]_vars

----------------------------------------------------------------------------
(* The server process: sanitizeCommand, the exec and sudo-exec tool        *)
(* handlers, and the shutdown handler of main().                           *)

\* The characters of a command, as far as trim() and the length check can
\* tell: white space, or anything else.
Chars == {" ", "x"}
Strings == UNION {[1..n -> Chars] : n \in 0..MaxCmd}

\* What a tool call can pass as `command`: a string, or a value of another
\* type.
Inputs ==
    {[isString |-> TRUE, chars |-> c] : c \in Strings}
        \cup {[isString |-> FALSE, chars |-> << >>]}

RECURSIVE TrimStart(_)
TrimStart(c) ==
    IF Len(c) > 0 /\ c[1] = " " THEN TrimStart(SubSeq(c, 2, Len(c))) ELSE c

RECURSIVE TrimEnd(_)
TrimEnd(c) ==
    IF Len(c) > 0 /\ c[Len(c)] = " "
    THEN TrimEnd(SubSeq(c, 1, Len(c) - 1))
    ELSE c

\* String.prototype.trim()
Trim(c) == TrimEnd(TrimStart(c))

Rejection(msg, limit) ==
    [ok |-> FALSE, text |-> << >>, msg |-> msg, limit |-> limit]

\* Faulty variant: a length check on the command as it was passed
sanitizeCommandRawLength(command) ==
    IF ~command.isString THEN Rejection("Command must be a string", 0)
    ELSE LET trimmedCommand == Trim(command.chars) IN
         IF Len(trimmedCommand) = 0
         THEN Rejection("Command cannot be empty", 0)
         ELSE IF MAX_CHARS # Infinity /\ Len(command.chars) > MAX_CHARS
         THEN Rejection("Command is too long", MAX_CHARS)
         ELSE [ok |-> TRUE, text |-> trimmedCommand, msg |-> "none",
               limit |-> 0]

\* sanitizeCommand(command): the trimmed command, or the InvalidParams error
\* it throws
sanitizeCommand(command) ==
    IF ~command.isString THEN Rejection("Command must be a string", 0)
    ELSE LET trimmedCommand == Trim(command.chars) IN
         IF Len(trimmedCommand) = 0
         THEN Rejection("Command cannot be empty", 0)
         ELSE IF MAX_CHARS # Infinity /\ Len(trimmedCommand) > MAX_CHARS
         THEN Rejection("Command is too long", MAX_CHARS)
         ELSE [ok |-> TRUE, text |-> trimmedCommand, msg |-> "none",
               limit |-> 0]

nManagers == Cardinality({h \in Handlers : tool[h].made # 0})

\* The promise connectionManager.ensureConnected() awaits (0: none, the
\* session is connected).
EnsureReturn ==
    IF isConnected THEN 0
    ELSE IF isConnecting /\ connectionPromise # 0 THEN connectionPromise
    ELSE nTransports + 1

\* `await connectionManager.ensureConnected()` on the manager that exists
HandlerConnect(h, rec) ==
    /\ IF ~isConnected THEN ConnectBody("ensureConnected")
       ELSE ReturnExisting("ensureConnected", 0)
    /\ tool' = [tool EXCEPT ![h] = [rec EXCEPT !.pc = "connecting",
                                               !.await = EnsureReturn]]
    /\ UNCHANGED <<connectionManager, orphans>>

\* `connectionManager = new SSHConnectionManager(sshConfig)` followed by
\* `await connectionManager.ensureConnected()`: the session fields are those
\* of the new object, and the transports of an object that the variable
\* referred to before stay open, out of reach.
HandlerCreate(h, rec) ==
    /\ nTransports < MaxTransports
    /\ connectionManager' = nManagers + 1
    /\ orphans' = {t \in Transports : client[t].phase # "none"}
    /\ isConnecting' = TRUE
    /\ connectionPromise' = nTransports + 1
    /\ conn' = nTransports + 1
    /\ suShell' = 0
    /\ suPromise' = 0
    /\ isElevated' = FALSE
    /\ client' = [client EXCEPT ![nTransports + 1] = NewClient]
    /\ calls' = Append(calls, [ret |-> nTransports + 1,
                               win |-> nTransports + 1])
    /\ tool' = [tool EXCEPT ![h] = [rec EXCEPT !.pc = "connecting",
                                               !.made = nManagers + 1,
                                               !.await = nTransports + 1]]
    /\ UNCHANGED elev

\* Faulty variant: a handler that sets up the session before it validates
InvokeValidatesLate(h, input) ==
    LET r == sanitizeCommand(input)
        rec == [tool[h] EXCEPT !.cmd = r.text, !.msg = r.msg]
    IN
    /\ tool[h].pc = "idle"
    /\ \A g \in Handlers : g < h => tool[g].pc # "idle"
    /\ IF connectionManager # 0 THEN HandlerConnect(h, rec)
       ELSE IF keyAuth
       THEN /\ tool' = [tool EXCEPT ![h] = [rec EXCEPT !.pc = "reading"]]
            /\ UNCHANGED <<mgr, client, elev, calls, connectionManager,
                           orphans>>
       ELSE HandlerCreate(h, rec)
    /\ UNCHANGED <<build, testMode, suPassword, suSecret, legacy, keyAuth,
                   MAX_CHARS, exited, execs, lastGet>>

\* A tool call arrives (the exec and the sudo-exec handler begin alike; the
\* calls are numbered in the order of their arrival): sanitizeCommand() runs
\* before the try block; then the manager is created if the variable is
\* null (after the key file was read, in the key configuration), and
\* ensureConnected() is awaited.
Invoke(h, input) ==
    LET r == sanitizeCommand(input)
        rec == [tool[h] EXCEPT !.cmd = r.text]
    IN
    /\ tool[h].pc = "idle"
    /\ \A g \in Handlers : g < h => tool[g].pc # "idle"
    /\ IF ~r.ok
       THEN /\ tool' = [tool EXCEPT ![h] = [rec EXCEPT !.pc = "failed",
                                                      !.code = "InvalidParams",
                                                      !.msg = r.msg,
                                                      !.limit = r.limit]]
            /\ UNCHANGED <<mgr, client, elev, calls, connectionManager,
                           orphans>>
       ELSE IF connectionManager # 0 THEN HandlerConnect(h, rec)
       ELSE IF keyAuth
       THEN /\ tool' = [tool EXCEPT ![h] = [rec EXCEPT !.pc = "reading"]]
            /\ UNCHANGED <<mgr, client, elev, calls, connectionManager,
                           orphans>>
       ELSE HandlerCreate(h, rec)
    /\ UNCHANGED <<build, testMode, suPassword, suSecret, legacy, keyAuth, MAX_CHARS,
                   exited, execs, lastGet>>

\* fs.readFile(KEY) resolved: the handler goes on to create the manager
KeyRead(h) ==
    /\ tool[h].pc = "reading"
    /\ HandlerCreate(h, tool[h])
    /\ UNCHANGED <<build, testMode, suPassword, suSecret, legacy, keyAuth, MAX_CHARS,
                   exited, execs, lastGet>>

\* A failure that is no McpError is wrapped by the handler's catch block.
HandlerFails(h, msg) ==
    tool' = [tool EXCEPT ![h].pc = "failed", ![h].code = "InternalError",
                         ![h].msg = msg]

\* fs.readFile(KEY) rejected
KeyReadFails(h) ==
    /\ tool[h].pc = "reading"
    /\ HandlerFails(h, "Unexpected error")
    /\ UNCHANGED <<build, testMode, suPassword, suSecret, legacy, keyAuth, MAX_CHARS,
                   exited, connectionManager, orphans, mgr, client, elev,
                   calls, execs, lastGet>>

\* The awaited ensureConnected() settled: a rejection leaves the handler
\* through its catch block; otherwise the command is handed to the manager
\* that the variable refers to now.
HandlerResume(h) ==
    /\ tool[h].pc = "connecting"
    /\ tool[h].await # 0 => client[tool[h].await].prom # "pending"
    /\ IF tool[h].await # 0 /\ client[tool[h].await].prom # "resolved"
       THEN /\ HandlerFails(h, "SSH connection")
            /\ UNCHANGED <<execs, elev>>
       ELSE /\ nExecs < MaxExec
            /\ execs' = [execs EXCEPT ![nExecs + 1] = StartedExec(FALSE)]
            /\ elev' = IF conn # 0 /\ suShell # 0 /\ build = "v130"
                       THEN [elev EXCEPT ![suShell].chanEnded = TRUE]
                       ELSE elev
            /\ tool' = [tool EXCEPT ![h].pc = "running",
                                    ![h].used = connectionManager,
                                    ![h].exec = nExecs + 1]
    /\ UNCHANGED <<build, testMode, suPassword, suSecret, legacy, keyAuth, MAX_CHARS,
                   exited, connectionManager, orphans, mgr, client, calls,
                   lastGet>>

\* The promise of execSshCommandWithConnection settled
HandlerSettle(h) ==
    /\ tool[h].pc = "running"
    /\ execs[tool[h].exec].outcome # "none"
    /\ IF execs[tool[h].exec].outcome = "success"
       THEN tool' = [tool EXCEPT ![h].pc = "done", ![h].code = "ok"]
       ELSE HandlerFails(h, execs[tool[h].exec].outcome)
    /\ UNCHANGED <<build, testMode, suPassword, suSecret, legacy, keyAuth, MAX_CHARS,
                   exited, connectionManager, orphans, mgr, client, elev,
                   calls, execs, lastGet>>

\* The transport of a manager that is referenced no more becomes ready: its
\* listeners act on that manager's fields, and its connect() resolves.
OrphanReady(t) ==
    /\ t \in orphans
    /\ client[t].phase = "connecting"
    /\ client' = [client EXCEPT ![t].phase = "ready", ![t].timer = FALSE,
                                ![t].prom = Settle(@, "resolved")]
    /\ UNCHANGED <<cfg, mgr, elev, calls, execs, lastGet>>

\* cleanup() of main(), registered for SIGINT and SIGTERM
Cleanup ==
    /\ IF connectionManager # 0 THEN CloseBody
       ELSE UNCHANGED <<mgr, client, elev>>
    /\ connectionManager' = 0
    /\ exited' = TRUE
    /\ UNCHANGED <<build, testMode, suPassword, suSecret, legacy, keyAuth, MAX_CHARS,
                   tool, orphans, calls, execs, lastGet>>

\* A server started from the command line, without --suPassword.
Started ==
    /\ Constructed
    /\ suPassword = FALSE
    /\ suSecret = 0
    /\ testMode = FALSE
    /\ connectionManager = 0
    /\ tool = [h \in Handlers |-> NoTool]
    /\ keyAuth \in BOOLEAN
    /\ exited = FALSE
    /\ orphans = {}
    /\ legacy = NoLegacy

\* --maxChars=1
InitTool ==
    /\ Started
    /\ MAX_CHARS = MaxCharsLimit

\* --maxChars=1 or --maxChars=none
InitSanitize ==
    /\ Started
    /\ MAX_CHARS \in {Infinity, MaxCharsLimit}

\* The commands of the tool calls: one within the limit, one over it, a
\* blank one, and a value that is no string.
ToolInputs ==
    {[isString |-> TRUE, chars |-> c] : c \in {<<"x">>, <<"x", "x">>, <<" ">>}}
        \cup {[isString |-> FALSE, chars |-> << >>]}

NextTool ==
    \/ (~exited /\ \E h \in Handlers, input \in ToolInputs : Invoke(h, input))
    \/ (~exited /\ \E h \in Handlers : KeyRead(h))
    \/ (~exited /\ \E h \in Handlers : KeyReadFails(h))
    \/ (~exited /\ \E h \in Handlers : HandlerResume(h))
    \/ (~exited /\ \E h \in Handlers : HandlerSettle(h))
    \/ (~exited /\ \E t \in Transports \ orphans : Ready(t))
    \/ (~exited /\ \E t \in Transports \ orphans : Error(t))
    \/ (~exited /\ \E t \in Transports \ orphans : End(t))
    \/ (~exited /\ \E t \in Transports \ orphans : Closed(t))
    \/ (~exited /\ \E t \in Transports : OrphanReady(t))
    \/ (~exited /\ \E k \in Execs : ExecCbErr(k))
    \/ (~exited /\ \E k \in Execs : ExecCbStream(k))
    \/ (~exited /\ \E k \in Execs : ExecClose(k, 0))
    \/ (~exited /\ \E k \in Execs : ExecTimeout(k))
    \/ (~exited /\ Cleanup)

SpecTool == InitTool /\ [][NextTool]_vars

\* One tool call with any command.
NextSanitize ==
    \E h \in Handlers, input \in Inputs : Invoke(h, input)

SpecSanitize == InitSanitize /\ [][NextSanitize]_vars

----------------------------------------------------------------------------
(* Properties of the server process (SpecTool, SpecSanitize).              *)

\* C23: the process-wide session is initialized exactly once: however the
\* tool calls interleave, at most one SSHConnectionManager is ever created,
\* and every call hands its command to that one manager.
C23_InitializedOnce ==
    /\ nManagers <= 1
    /\ \A g, h \in Handlers :
          (tool[g].used # 0 /\ tool[h].used # 0) => tool[g].used = tool[h].used
    /\ \A h \in Handlers :
          (tool[h].made # 0 /\ tool[h].used # 0) => tool[h].used = tool[h].made

\* C24: the shutdown handler invokes close() before the process exits: after
\* it the session holds no handle and no elevated channel, and no transport
\* that the session opened is left open without having been ended.
C24_ShutdownClosesSession ==
    [][Cleanup =>
          /\ exited'
          /\ conn' = 0 /\ suShell' = 0 /\ ~isElevated'
          /\ \A t \in Transports : t \in LiveTransports => client'[t].ended]_vars

----------------------------------------------------------------------------
(* Properties of close() (SpecElev).                                       *)

\* C25: close() with a handle ends the elevated channel and clears the
\* elevation state, then ends the transport and clears the handle; with no
\* handle it changes nothing; a close() therefore leaves a state in which a
\* second close() is a no-op.
C25_CloseIdempotent ==
    [][/\ conn = 0 => ~ENABLED (Close /\ vars' # vars)
       /\ Close =>
             /\ conn' = 0
             /\ conn # 0 =>
                   /\ client'[conn].ended
                   /\ suShell' = 0 /\ ~isElevated'
                   /\ suShell # 0 => elev'[suShell].chanEnded
                   /\ \A t \in Transports \ {conn} : client'[t] = client[t]
                   /\ UNCHANGED <<isConnecting, connectionPromise, suPromise>>]_vars

\* close() was called on a connected and elevated session.
C25_Witness ==
    /\ conn = 0 /\ suShell = 0 /\ ~isElevated
    /\ \E t \in Transports : client[t].prom = "resolved" /\ client[t].ended
    /\ \E e \in Elevs : elev[e].prom = "resolved" /\ elev[e].chanEnded

----------------------------------------------------------------------------
(* execSshCommand(sshConfig, command, stdin): the function kept for        *)
(* backward compatibility, which opens a connection of its own.            *)

\* resolve(...) or reject(...) called by a callback of the call
SettleLegacy(rec, outcome, text, code) ==
    [rec EXCEPT !.settles = @ + 1,
                !.outcome = IF @ = "none" THEN outcome ELSE @,
                !.text = IF rec.outcome = "none" THEN text ELSE @,
                !.code = IF rec.outcome = "none" THEN code ELSE @]

\* All that a step of the call leaves alone.
LegacyFrame == UNCHANGED <<build, testMode, suPassword, suSecret, proc, mgr,
                           client, elev, calls, execs, lastGet>>

\* The promise executor: new Client(), the command timer, the listeners,
\* conn.connect(sshConfig)
LegacyCall ==
    /\ legacy.phase = "none"
    /\ legacy' = [NoLegacy EXCEPT !.phase = "connecting", !.sock = "open",
                                  !.timer = TRUE]
    /\ LegacyFrame

\* conn.on('ready'): conn.exec(command, ...)
LegacyReady ==
    /\ legacy.phase = "connecting" /\ legacy.sock = "open" /\ ~legacy.ended
    /\ legacy' = [legacy EXCEPT !.phase = "ready", !.cb = "pending"]
    /\ LegacyFrame

\* exec callback with err: conn.end() follows in every case
LegacyExecCbErr ==
    /\ legacy.cb = "pending"
    /\ legacy' = IF ~legacy.isResolved
                 THEN SettleLegacy([legacy EXCEPT !.cb = "err", !.ended = TRUE,
                                                  !.isResolved = TRUE,
                                                  !.timer = FALSE],
                                   "execError", << >>, 0)
                 ELSE [legacy EXCEPT !.cb = "err", !.ended = TRUE]
    /\ LegacyFrame

\* exec callback with a stream
LegacyExecCbStream ==
    /\ legacy.cb = "pending"
    /\ legacy.phase = "ready" /\ legacy.sock = "open"
    /\ legacy' = [legacy EXCEPT !.cb = "stream"]
    /\ LegacyFrame

LegacyData(c) ==
    /\ legacy.cb = "stream" /\ ~legacy.closed
    /\ Len(legacy.out) + Len(legacy.err) < MaxOut
    /\ legacy' = [legacy EXCEPT !.out = Append(@, c)]
    /\ LegacyFrame

LegacyStderr(c) ==
    /\ legacy.cb = "stream" /\ ~legacy.closed
    /\ Len(legacy.out) + Len(legacy.err) < MaxOut
    /\ legacy' = [legacy EXCEPT !.err = Append(@, c)]
    /\ LegacyFrame

\* stream.on('close', ...): conn.end() only when the call is unsettled
LegacyCloseListener(rec, code) ==
    IF ~rec.isResolved
    THEN IF rec.err # << >>
         THEN SettleLegacy([rec EXCEPT !.closed = TRUE, !.isResolved = TRUE,
                                       !.timer = FALSE, !.ended = TRUE],
                           "stderrFail", rec.err, code)
         ELSE SettleLegacy([rec EXCEPT !.closed = TRUE, !.isResolved = TRUE,
                                       !.timer = FALSE, !.ended = TRUE],
                           "success", rec.out, code)
    ELSE [rec EXCEPT !.closed = TRUE]

LegacyClose(code) ==
    /\ legacy.cb = "stream" /\ ~legacy.closed
    /\ legacy' = LegacyCloseListener(legacy, code)
    /\ LegacyFrame

\* The command timer: the 5 s timer is armed, then the pkill exec is issued
\* on the call's own connection (exec() throws 'Not connected' when the
\* socket is not writable, and reject() is then never reached).
LegacyTimeoutCallback(rec) ==
    IF ~rec.isResolved
    THEN IF rec.sock # "open" \/ rec.ended
         THEN [rec EXCEPT !.timer = FALSE, !.isResolved = TRUE,
                          !.abortTimer = TRUE, !.abort = "threw"]
         ELSE SettleLegacy([rec EXCEPT !.timer = FALSE, !.isResolved = TRUE,
                                       !.abortTimer = TRUE, !.abort = "issued",
                                       !.abortCb = "pending"],
                           "timeout", << >>, 0)
    ELSE [rec EXCEPT !.timer = FALSE]

LegacyTimeout ==
    /\ legacy.timer
    /\ legacy' = LegacyTimeoutCallback(legacy)
    /\ LegacyFrame

\* callback of the pkill exec without a stream
LegacyAbortCbErr ==
    /\ legacy.abortCb = "pending"
    /\ legacy' = [legacy EXCEPT !.abortCb = "err", !.abortTimer = FALSE,
                                !.ended = TRUE]
    /\ LegacyFrame

\* callback of the pkill exec with a stream
LegacyAbortCbStream ==
    /\ legacy.abortCb = "pending"
    /\ legacy.phase = "ready" /\ legacy.sock = "open"
    /\ legacy' = [legacy EXCEPT !.abortCb = "stream"]
    /\ LegacyFrame

\* abortStream.on('close', ...)
LegacyAbortClose ==
    /\ legacy.abortCb = "stream" /\ ~legacy.abortClosed
    /\ legacy' = [legacy EXCEPT !.abortClosed = TRUE, !.abortTimer = FALSE,
                                !.ended = TRUE]
    /\ LegacyFrame

\* setTimeout(..., 5000) callback
LegacyAbortTimeout ==
    /\ legacy.abortTimer
    /\ legacy' = [legacy EXCEPT !.abortTimer = FALSE, !.ended = TRUE]
    /\ LegacyFrame

\* conn.on('error', ...)
LegacyError ==
    /\ legacy.phase \in {"connecting", "ready"}
    /\ legacy' = IF ~legacy.isResolved
                 THEN SettleLegacy([legacy EXCEPT !.phase = "down",
                                                  !.isResolved = TRUE,
                                                  !.timer = FALSE],
                                   "connError", << >>, 0)
                 ELSE [legacy EXCEPT !.phase = "down"]
    /\ LegacyFrame

\* The remote side ends the connection: the socket is not writable from
\* then on, and the callbacks of the open requests follow later.
LegacySockDestroyed ==
    /\ legacy.phase \in {"connecting", "ready"}
    /\ legacy.sock = "open"
    /\ legacy' = [legacy EXCEPT !.sock = "destroyed"]
    /\ LegacyFrame

InitLegacy ==
    /\ Constructed
    /\ Standalone
    /\ suPassword = FALSE
    /\ suSecret = 0
    /\ testMode = FALSE

NextLegacy ==
    \/ LegacyCall
    \/ LegacyReady
    \/ LegacyExecCbErr
    \/ LegacyExecCbStream
    \/ \E c \in Chunks : LegacyData(c)
    \/ \E c \in Chunks : LegacyStderr(c)
    \/ \E code \in {0, 1} : LegacyClose(code)
    \/ LegacyTimeout
    \/ LegacyAbortCbErr
    \/ LegacyAbortCbStream
    \/ LegacyAbortClose
    \/ LegacyAbortTimeout
    \/ LegacyError
    \/ LegacySockDestroyed

SpecLegacy == InitLegacy /\ [][NextLegacy]_vars

\* C26: when the command timer of execSshCommand expires first, the abort
\* (pkill) command is issued before conn.end() is called; and after every
\* outcome (success, stderr failure, exec error, timeout) the connection is
\* ended, for a timeout when the abort channel closes or at the latest by
\* the 5 s timer.
C26_LegacyAbortThenEnd ==
    /\ (legacy.abort # "none" /\ legacy.ended) => legacy.abort = "issued"
    /\ legacy.outcome \in {"success", "stderrFail", "execError"} => legacy.ended
    /\ legacy.outcome = "timeout" => (legacy.ended \/ legacy.abortTimer)
    /\ (legacy.abortClosed \/ legacy.abortCb = "err") => legacy.ended

----------------------------------------------------------------------------
(* Further properties of the command execution engine (SpecExec).          *)

\* C27: a command is never silently retried: a call issues its command at
\* most once (one exec, or one write into the shared shell), no later step
\* of the call issues it again, and the step in which a call fails or times
\* out starts no other call, opens no transport and makes no connect()
\* call.
C27_NoSilentRetry ==
    [][\A k \in Execs :
          /\ execs'[k].writes <= 1
          /\ execs[k].st = "called" =>
                /\ execs'[k].writes = execs[k].writes
                /\ (execs[k].outcome = "none" /\ execs'[k].outcome # "none"
                       /\ execs'[k].outcome # "success") =>
                      /\ nExecs' = nExecs
                      /\ nTransports' = nTransports
                      /\ calls' = calls
                      /\ UNCHANGED <<conn, isConnecting, connectionPromise>>]_vars

\* One command timed out and another failed on the same connection, each
\* having been issued once.
C27_Witness ==
    /\ nTransports = 1
    /\ \E k, j \in Execs :
          /\ execs[k].outcome = "timeout" /\ execs[k].writes = 1
          /\ execs[j].outcome \in {"execError", "stderrFail"}
          /\ execs[j].writes = 1

----------------------------------------------------------------------------
(* Properties of sanitizeCommand and of the tool handlers (SpecSanitize,   *)
(* SpecTool).                                                              *)

Blank(n) == [i \in 1..n |-> " "]

\* t is c without the white space around it.
Trimmed(t, c) ==
    /\ \E i, j \in 0..MaxCmd : c = Blank(i) \o t \o Blank(j)
    /\ Len(t) > 0 => (t[1] # " " /\ t[Len(t)] # " ")

\* C28: with a finite maximum N, a command whose trimmed length is at most N
\* is accepted and returned trimmed, one whose trimmed length is N + 1 or
\* more is rejected with an InvalidParams error that names N, and an empty
\* or blank command is rejected with 'Command cannot be empty'; the length
\* is that of the trimmed command.
C28_LengthBoundary ==
    [][\A h \in Handlers, input \in Inputs :
          (Invoke(h, input) /\ input.isString) =>
              \E t \in Strings :
                  /\ Trimmed(t, input.chars)
                  /\ IF Len(t) = 0
                     THEN /\ tool'[h].pc = "failed"
                          /\ tool'[h].code = "InvalidParams"
                          /\ tool'[h].msg = "Command cannot be empty"
                     ELSE IF MAX_CHARS # Infinity /\ Len(t) >= MAX_CHARS + 1
                     THEN /\ tool'[h].pc = "failed"
                          /\ tool'[h].code = "InvalidParams"
                          /\ tool'[h].msg = "Command is too long"
                          /\ tool'[h].limit = MAX_CHARS
                     ELSE /\ tool'[h].pc # "failed"
                          /\ tool'[h].cmd = t]_vars

\* With the limit N, one call was accepted with a command of exactly N
\* characters and another was rejected for its length.
C28_Witness ==
    /\ MAX_CHARS = MaxCharsLimit
    /\ tool[1].pc = "connecting" /\ Len(tool[1].cmd) = MAX_CHARS
    /\ tool[2].pc = "failed" /\ tool[2].msg = "Command is too long"
    /\ tool[2].limit = MAX_CHARS

\* The command is no string, is blank, or is longer than the limit.
InvalidCommand(input) ==
    \/ ~input.isString
    \/ \E t \in Strings :
          /\ Trimmed(t, input.chars)
          /\ Len(t) = 0 \/ (MAX_CHARS # Infinity /\ Len(t) > MAX_CHARS)

\* C29: a tool call with an invalid command fails with InvalidParams in the
\* step in which it arrives, and that step creates no manager, opens no
\* transport and changes no field of the session; a call that fails later
\* (connection, execution or timeout failure) fails with InternalError.
C29_RejectedBeforeSession ==
    [][/\ \A h \in Handlers, input \in Inputs :
            (Invoke(h, input) /\ InvalidCommand(input)) =>
                /\ tool'[h].pc = "failed"
                /\ tool'[h].code = "InvalidParams"
                /\ tool'[h].made = 0
                /\ connectionManager' = connectionManager
                /\ nTransports' = nTransports
                /\ UNCHANGED <<mgr, client, elev, calls, execs>>
       /\ \A h \in Handlers :
            (tool[h].pc \in {"reading", "connecting", "running"}
                /\ tool'[h].pc = "failed") =>
                tool'[h].code = "InternalError"]_vars

\* A call with an invalid command was rejected while no manager existed,
\* and the next call, with a valid command, failed on a command timeout.
C29_Witness ==
    /\ tool[1].pc = "failed" /\ tool[1].code = "InvalidParams"
    /\ tool[1].made = 0
    /\ tool[2].made = 1 /\ nManagers = 1
    /\ tool[2].pc = "failed" /\ tool[2].code = "InternalError"
    /\ tool[2].msg = "timeout"

----------------------------------------------------------------------------
(* Further properties of the session state machine (Spec).                 *)

\* The session is connected on transport t, whose connect() has resolved.
ConnectedOn(t) ==
    conn = t /\ client[t].phase = "ready" /\ client[t].prom = "resolved"

\* The session was connected before and lost that connection through a
\* notification of the transport.
LostConnection ==
    \E t \in Transports :
        /\ client[t].prom = "resolved" /\ ~client[t].ended
        /\ client[t].phase \in {"down", "closed"}

\* C30: an error, end or close notification of the transport the session is
\* connected on leaves the session Disconnected (no handle, isConnected()
\* false) and leaves the resolved outcome of connect() as it is; the
\* ensureConnected() made on the Disconnected session opens a new transport.
C30_ConnectedToDisconnected ==
    [][/\ \A t \in Transports :
            (ConnectedOn(t) /\ (Error(t) \/ End(t) \/ Closed(t))) =>
                /\ Disconnected'
                /\ ~isConnected'
                /\ client'[t].prom = "resolved"
       /\ (LostConnection /\ Disconnected /\ EnsureConnected) =>
             /\ conn' = nTransports + 1
             /\ client'[nTransports + 1] = NewClient
             /\ calls'[Len(calls')].ret = nTransports + 1]_vars

\* The first connection was lost after it was ready, and the session is
\* connecting again on a second transport.
C30_Witness ==
    /\ client[1].prom = "resolved" /\ ~client[1].ended
    /\ client[1].phase \in {"down", "closed"}
    /\ conn = 2 /\ client[2].phase = "connecting"
    /\ calls[Len(calls)].ret = 2

\* The handle is still set while the socket of its transport is destroyed.
DeadHandle == conn # 0 /\ client[conn].sock = "destroyed"

\* ensureConnected() opens a new transport in this step.
StartsNewConnection ==
    /\ conn' = nTransports + 1
    /\ client'[nTransports + 1] = NewClient
    /\ calls'[Len(calls')].ret = nTransports + 1

\* C31 as stated: isConnected() turns false when the socket of the held
\* transport is destroyed, although the handle stays set, and every
\* ensureConnected() on such a handle starts a new connection.
C31_LiveStateAlwaysReconnects ==
    [][/\ \A t \in Transports :
            (SockDestroyed(t) /\ conn = t) => (conn' = t /\ ~isConnected')
       /\ (DeadHandle /\ EnsureConnected) => StartsNewConnection]_vars

\* C31, amended: isConnected() turns false when the socket of the held
\* transport is destroyed, although the handle stays set; ensureConnected()
\* on such a handle starts a new connection, unless a connection attempt is
\* still in flight, whose promise it then returns.
C31_LiveState ==
    [][/\ \A t \in Transports :
            (SockDestroyed(t) /\ conn = t) => (conn' = t /\ ~isConnected')
       /\ (DeadHandle /\ EnsureConnected) =>
             IF isConnecting /\ connectionPromise # 0
             THEN /\ UNCHANGED <<mgr, client>>
                  /\ calls'[Len(calls')].ret = connectionPromise
             ELSE StartsNewConnection]_vars

\* The socket of the ready transport 1 was destroyed, no close notification
\* has arrived yet, and ensureConnected() has replaced the handle.
C31_Witness ==
    /\ client[1].phase = "ready" /\ client[1].sock = "destroyed"
    /\ ~client[1].ended
    /\ conn = 2 /\ client[2].phase = "connecting"
    /\ calls[Len(calls)].ret = 2

----------------------------------------------------------------------------
(* Further properties of the elevation engine (SpecElev, SpecSu).          *)

\* The channel of attempt e closes while the attempt has neither resolved
\* nor failed.
ClosesBeforeSuccess(e) == ElevChanClose(e) /\ elev[e].prom = "pending"

\* C32: when the channel of an elevation attempt closes before the success
\* pattern was seen, the attempt is rejected by the close listener, the
\* session is NotElevated and no elevated channel is stored.
C32_ClosedBeforeElevation ==
    [][\A e \in Elevs :
          ClosesBeforeSuccess(e) =>
              /\ elev'[e].prom = "rejected"
              /\ ~isElevated'
              /\ suShell' = 0]_vars

\* The attempts as setSuPassword(undefined) leaves them: nothing but the end
\* of the channel that was stored as the elevated shell.
ShellDropped ==
    [e \in Elevs |-> IF e = suShell THEN [elev[e] EXCEPT !.chanEnded = TRUE]
                     ELSE elev[e]]

\* C33: setSuPassword(undefined) ends the stored elevated channel, leaves
\* the session NotElevated and starts no handshake (no attempt is created,
\* no channel is opened or written to); with no secret configured no
\* ensureElevated() call changes anything.
C33_ClearingSecret ==
    [][/\ SetSuPassword(0) =>
             /\ suShell' = 0 /\ ~isElevated'
             /\ elev' = ShellDropped
             /\ nElevs' = nElevs
             /\ suPromise' = suPromise
             /\ ~suPassword'
       /\ ~suPassword => ~ENABLED (ElevCall /\ vars' # vars)]_vars

\* The secret was cleared on an elevated, connected session: the channel
\* that had been the elevated shell is ended and no longer stored.
C33_Witness ==
    /\ suSecret = 0 /\ ~suPassword
    /\ isConnected
    /\ suShell = 0 /\ ~isElevated
    /\ \E e \in Elevs : elev[e].prom = "resolved" /\ elev[e].chanEnded

----------------------------------------------------------------------------
(* Notifications and timers of abandoned transports (Spec).                *)

\* Transport t delivers an error, end or close notification in this step.
Notifies(t) == Error(t) \/ End(t) \/ Closed(t)

\* The session fields that refer to attempt u keep referring to it.
KeepsAttempt(u) ==
    /\ conn = u => conn' = u
    /\ connectionPromise = u =>
          (connectionPromise' = u /\ isConnecting' = isConnecting)

\* C34: a notification of a transport the session has dropped leaves the
\* handle, the connecting flag and the in-flight promise of every attempt
\* started after it as they are.
C34_StaleNotifications ==
    [][\A t \in Transports :
          Notifies(t) => \A u \in Transports : u > t => KeepsAttempt(u)]_vars

\* C35: the expiry of the 30 s timer of an attempt that is over neither ends
\* the transport of a later attempt nor clears the handle, the connecting
\* flag or the in-flight promise that belong to it.
C35_TimerOfOneAttempt ==
    [][\A t \in Transports :
          ConnectTimeout(t) =>
              \A u \in Transports :
                  u > t => (KeepsAttempt(u) /\ client'[u].ended = client[u].ended)]_vars

----------------------------------------------------------------------------
(* Failed elevation attempts (SpecElev).                                   *)

\* C36: the in-flight elevation marker never holds an attempt that has
\* failed, whichever way it failed, so the next ensureElevated() call does
\* not return the earlier failure.
C36_FailureClearsMarker ==
    \A e \in Elevs : elev[e].prom = "rejected" => suPromise # e

\* C37: an elevation attempt that has been rejected never afterwards stores
\* its channel as the elevated shell or sets the elevated flag, whatever
\* data its channel delivers.
C37_FailedNeverElevates ==
    [][\A e \in Elevs :
          elev[e].prom = "rejected" =>
              /\ suShell' # e
              /\ \A tok \in Tokens :
                    ElevData(e, tok) => (isElevated' = isElevated)]_vars

----------------------------------------------------------------------------
(* The abort command of execSshCommandWithConnection (SpecExec).           *)

\* The pkill command of call k is sent in this step.
IssuesAbort(k) == execs[k].abort # "issued" /\ execs'[k].abort = "issued"

\* C38: the abort command of a call is sent only by the expiry of the call's
\* timer while the call has no result yet, at most once per call (it is sent
\* by a timer that is then disarmed for good), and never for a call that has
\* already succeeded or failed.
C38_AbortOnlyOnTimeout ==
    [][\A k \in Execs :
          /\ IssuesAbort(k) =>
                /\ ExecTimeout(k)
                /\ execs[k].abort = "none"
                /\ execs[k].outcome = "none" /\ ~execs[k].isResolved
                /\ execs'[k].outcome = "timeout"
          /\ execs[k].abort # "none" =>
                /\ execs'[k].abort = execs[k].abort
                /\ ~execs[k].timer /\ ~execs'[k].timer
          /\ execs[k].outcome \in Classified => ~IssuesAbort(k)]_vars

\* One call timed out and its abort was sent; its channel closed later.
\* The other call completed before its timer and no abort was sent for it.
C38_Witness ==
    \E k, j \in Execs :
        /\ execs[k].abort = "issued" /\ execs[k].outcome = "timeout"
        /\ execs[k].closed
        /\ execs[j].outcome \in {"success", "stderrFail", "execError"}
        /\ execs[j].abort = "none" /\ ~execs[j].timer

----------------------------------------------------------------------------
(* Termination of connect() (SpecElevLive).                                *)

\* Timers fire: an armed 30 s connection timer and an armed 10 s elevation
\* timer eventually expire. Nothing is assumed about the transport or its
\* channels, which may stay silent for ever.
TimersFire ==
    /\ \A t \in Transports : WF_vars(ConnectTimeout(t))
    /\ \A e \in Elevs : WF_vars(ElevTimeout(e))

SpecElevLive == InitElev /\ [][NextElev]_vars /\ TimersFire

\* C39: the promise of every connection attempt, which is what each
\* connect()/ensureConnected() call of that attempt returns, is eventually
\* resolved or rejected, whatever the transport does.
C39_ConnectSettles ==
    \A t \in Transports :
        (client[t].prom = "pending") ~> (client[t].prom # "pending")

====
